---- MODULE Spec2Model ----
(***************************************************************************)
(* A model of the sector-rotation engine of marketmind-service/sector-     *)
(* analysis: the memoized daily download (fetch_data.download_daily), the  *)
(* per-ticker snapshot (compute_metrics_for_ticker), the sector            *)
(* aggregation (sector_breadth, score_sector), the candidate selection     *)
(* (pick_top_components) and the dashboard build (build_sector_dashboard). *)
(*                                                                         *)
(* Numbers.  A Python/NumPy float is modelled as an exact rational         *)
(* <<num, den>> in lowest terms with den > 0; NaN is <<0, 0>>.  Arithmetic *)
(* and comparisons follow IEEE/Python rules for NaN (every comparison with *)
(* NaN is false, every operation on NaN is NaN); the rounding error of     *)
(* binary floating point is not modelled.  Prices and volumes are positive,*)
(* so no division by zero and no infinity arises.                          *)
(***************************************************************************)
EXTENDS Integers, Sequences, FiniteSets, TLC

VARIABLES
    _DOWNLOAD_CACHE,   \* fetch_data._DOWNLOAD_CACHE: key -> stored dataset
    attempts,          \* history: the number of times yf.download was called
    downloads,         \* history: request -> number of yf.download calls that returned data
    returned,          \* history: request -> the calls of download_daily that returned,
                       \*          each as [id of the dataset returned, tickers as passed]
    calls,             \* history: the number of calls made so far
    args,              \* the arguments of the call in hand (or of the last call)
    result,            \* what that call returned or raised; Pending before it ran
    state,             \* the SectorState of a run of the sector graph
    node,              \* the node of the sector graph that runs next
    threads            \* the threads inside download_daily: thread -> its position
                       \* and local variables

vars == <<_DOWNLOAD_CACHE, attempts, downloads, returned, calls, args, result,
          state, node, threads>>

Pending == [pending |-> TRUE]

\* No run of the sector graph and no thread: the functions are called directly.
NoGraph == state = [none |-> TRUE] /\ node = "none" /\ threads = <<>>

(***************************************************************************)
(* Floats                                                                  *)
(***************************************************************************)
Abs(n) == IF n < 0 THEN 0 - n ELSE n

RECURSIVE GCD(_, _)
GCD(a, b) == IF b = 0 THEN a ELSE GCD(b, a % b)

\* The float n/d (d > 0), in lowest terms.
Q(n, d) == LET g == GCD(Abs(n), d) IN <<n \div g, d \div g>>

F(n) == <<n, 1>>

\* float("nan") / np.nan
NaN == <<0, 0>>

\* np.isnan / pd.isna on a float
isnan(x) == x[2] = 0

FAdd(x, y) == IF isnan(x) \/ isnan(y) THEN NaN
              ELSE Q(x[1] * y[2] + y[1] * x[2], x[2] * y[2])

FSub(x, y) == IF isnan(x) \/ isnan(y) THEN NaN
              ELSE Q(x[1] * y[2] - y[1] * x[2], x[2] * y[2])

FMul(x, y) == IF isnan(x) \/ isnan(y) THEN NaN
              ELSE Q(x[1] * y[1], x[2] * y[2])

\* x / y for y # 0 (0/0 is NaN, as in NumPy).
FDiv(x, y) == IF isnan(x) \/ isnan(y) \/ y[1] = 0 THEN NaN
              ELSE IF y[1] > 0 THEN Q(x[1] * y[2], x[2] * y[1])
              ELSE Q((0 - x[1]) * y[2], x[2] * (0 - y[1]))

\* x < y, x == y on floats: false whenever a NaN is involved.
FLt(x, y) == ~isnan(x) /\ ~isnan(y) /\ x[1] * y[2] < y[1] * x[2]
FEq(x, y) == ~isnan(x) /\ ~isnan(y) /\ x = y
FLe(x, y) == FLt(x, y) \/ FEq(x, y)

\* The builtin min(a, b): b replaces a only if b < a, so min(nan, b) is nan.
PyMin(a, b) == IF FLt(b, a) THEN b ELSE a

\* The builtin max(a, b): b replaces a only if b > a, so max(nan, b) is nan.
PyMax(a, b) == IF FLt(a, b) THEN b ELSE a

\* np.clip(x, lo, hi): NaN stays NaN.
NpClip(x, lo, hi) == IF isnan(x) THEN NaN
                     ELSE IF FLt(x, lo) THEN lo
                     ELSE IF FLt(hi, x) THEN hi
                     ELSE x

\* The integer nearest to n/d (d > 0), ties to the even one.
RoundHalfEven(n, d) ==
    LET q == n \div d
        r == n % d
    IN  IF 2 * r < d THEN q
        ELSE IF 2 * r > d THEN q + 1
        ELSE IF q % 2 = 0 THEN q ELSE q + 1

\* round(x, ndigits) on a float: round(nan, ndigits) is nan.
PyRound(x, ndigits) ==
    IF isnan(x) THEN NaN
    ELSE Q(RoundHalfEven((10 ^ ndigits) * x[1], x[2]), 10 ^ ndigits)

(***************************************************************************)
(* Sequences                                                               *)
(***************************************************************************)
Range(s) == {s[i] : i \in DOMAIN s}

RECURSIVE SumSeq(_)
SumSeq(s) == IF s = <<>> THEN 0 ELSE Head(s) + SumSeq(Tail(s))

\* The sequences over S of length 0..n.
SeqsUpTo(S, n) == UNION {[1..k -> S] : k \in 0..n}

(***************************************************************************)
(* Snapshots (the dict compute_metrics_for_ticker returns) and None        *)
(***************************************************************************)
None == [none |-> TRUE]

\* Variant: leaders without a snapshot counted in the denominator.
sector_breadth_all_leaders(leader_metrics) ==
    LET flags == SelectSeq(leader_metrics, LAMBDA m : m # None)
    IN  IF Len(flags) = 0 THEN NaN
        ELSE Q(SumSeq([i \in DOMAIN flags |-> flags[i].above20]), Len(leader_metrics))

(***************************************************************************)
(* sector_breadth, score_sector                                            *)
(***************************************************************************)
\* sector_breadth(leader_metrics): the mean of above20 over the entries that
\* are not None; nan when there is none.
sector_breadth(leader_metrics) ==
    LET flags == SelectSeq(leader_metrics, LAMBDA m : m # None)
    IN  IF Len(flags) = 0 THEN NaN
        ELSE Q(SumSeq([i \in DOMAIN flags |-> flags[i].above20]), Len(flags))

\* Variant: momentum taken as ret5 itself, without max(ret5, momo_cut).
score_sector_signed_momo(metrics_etf, breadth) ==
    IF metrics_etf = None THEN NaN
    ELSE
    LET rvol      == FDiv(PyMin(metrics_etf.rvol20, F(2)), F(2))
        trend     == Q(metrics_etf.above20 + metrics_etf.above50 + metrics_etf.above200, 3)
        brv       == IF isnan(breadth) THEN F(0) ELSE breadth
        momo      == metrics_etf.ret5
        momo_norm == NpClip(FDiv(FAdd(momo, Q(5, 100)), Q(10, 100)), F(0), F(1))
        score     == FAdd(FAdd(FAdd(FMul(F(40), rvol), FMul(F(20), trend)),
                               FMul(F(25), brv)),
                          FMul(F(15), momo_norm))
    IN  PyRound(score, 1)

\* Variant: relative volume not capped at 2.0.
score_sector_uncapped(metrics_etf, breadth) ==
    IF metrics_etf = None THEN NaN
    ELSE
    LET rvol      == FDiv(metrics_etf.rvol20, F(2))
        trend     == Q(metrics_etf.above20 + metrics_etf.above50 + metrics_etf.above200, 3)
        brv       == IF isnan(breadth) THEN F(0) ELSE breadth
        momo      == PyMax(metrics_etf.ret5, F(0))
        momo_norm == NpClip(FDiv(FAdd(momo, Q(5, 100)), Q(10, 100)), F(0), F(1))
        score     == FAdd(FAdd(FAdd(FMul(F(40), rvol), FMul(F(20), trend)),
                               FMul(F(25), brv)),
                          FMul(F(15), momo_norm))
    IN  PyRound(score, 1)

\* score_sector(metrics_etf, breadth, momo_cut = 0.0)
score_sector(metrics_etf, breadth) ==
    IF metrics_etf = None THEN NaN
    ELSE
    LET rvol      == FDiv(PyMin(metrics_etf.rvol20, F(2)), F(2))
        trend     == Q(metrics_etf.above20 + metrics_etf.above50 + metrics_etf.above200, 3)
        brv       == IF isnan(breadth) THEN F(0) ELSE breadth
        momo      == PyMax(metrics_etf.ret5, F(0))
        momo_norm == NpClip(FDiv(FAdd(momo, Q(5, 100)), Q(10, 100)), F(0), F(1))
        score     == FAdd(FAdd(FAdd(FMul(F(40), rvol), FMul(F(20), trend)),
                               FMul(F(25), brv)),
                          FMul(F(15), momo_norm))
    IN  PyRound(score, 1)

(***************************************************************************)
(* compute_metrics_for_ticker                                              *)
(*                                                                         *)
(* A bar is one row of a ticker's frame: [Open, High, Low, Close, Volume], *)
(* each a float, NaN where Yahoo has no value.  A history is a sequence of *)
(* bars in ascending date order.                                           *)
(***************************************************************************)
\* Variant: the rows with a NaN field are kept.
dropna_keeps_all(df_t) == df_t

\* DataFrame.dropna(): the rows with no NaN field.
dropna(df_t) ==
    SelectSeq(df_t, LAMBDA b : \A col \in DOMAIN b : ~isnan(b[col]))

FAbs(x) == IF isnan(x) THEN NaN ELSE <<Abs(x[1]), x[2]>>

\* np.maximum of two floats without NaN
FMax2(x, y) == IF FLt(x, y) THEN y ELSE x

\* true_range(high, low, close_prev) at one row
true_range(high, low, close_prev) ==
    FMax2(FMax2(FSub(high, low), FAbs(FSub(high, close_prev))),
          FAbs(FSub(low, close_prev)))

\* d["TR"] at row i: close_prev is Close.shift(1).fillna(Close).
TR(d, i) ==
    true_range(d[i].High, d[i].Low, IF i = 1 THEN d[1].Close ELSE d[i - 1].Close)

\* The sum of col[i] for i in lo..hi (summed by halves: the sum is exact, so
\* the order of the additions does not matter).
RECURSIVE FSum(_, _, _)
FSum(col, lo, hi) ==
    IF lo > hi THEN F(0)
    ELSE IF lo = hi THEN col[lo]
    ELSE LET mid == (lo + hi) \div 2
         IN  FAdd(FSum(col, lo, mid), FSum(col, mid + 1, hi))

\* Variant: rolling(w, min_periods=1), the mean of the rows there are.
RollingMeanLast_min_periods_1(col, n, w) ==
    IF n < w THEN FDiv(FSum(col, 1, n), F(n)) ELSE FDiv(FSum(col, n - w + 1, n), F(w))

\* Series.rolling(w).mean() at the last of n rows: NaN until w rows exist.
RollingMeanLast(col, n, w) ==
    IF n < w THEN NaN ELSE FDiv(FSum(col, n - w + 1, n), F(w))

\* Series.pct_change(k) at the last of n rows: NaN until k + 1 rows exist.
PctChangeLast(col, n, k) ==
    IF n <= k THEN NaN ELSE FSub(FDiv(col[n], col[n - k]), F(1))

\* Variant: float(a >= b)
FloatGt_or_equal(a, b) == IF FLe(b, a) THEN 1 ELSE 0

\* float(a > b)
FloatGt(a, b) == IF FLt(b, a) THEN 1 ELSE 0

\* compute_metrics_for_ticker(df_t) raises KeyError when the frame lacks one
\* of the columns it reads.
raises_KeyError(df_t) ==
    \E i \in DOMAIN df_t : ~({"High", "Low", "Close", "Volume"} \subseteq DOMAIN df_t[i])

\* compute_metrics_for_ticker(df_t)[0]: the snapshot of the latest row, or None.
compute_metrics_for_ticker(df_t) ==
    LET d == dropna(df_t)
        n == Len(d)
    IN  IF n = 0 THEN None
        ELSE
        LET Close  == [i \in 1..n |-> d[i].Close]
            Volume == [i \in 1..n |-> d[i].Volume]
            TRs    == [i \in (IF n > 20 THEN n - 19 ELSE 1)..n |-> TR(d, i)]
            ATR20  == RollingMeanLast(TRs, n, 20)
            ATRpct == FMul(FDiv(ATR20, Close[n]), F(100))
            SMA20  == RollingMeanLast(Close, n, 20)
            SMA50  == RollingMeanLast(Close, n, 50)
            SMA200 == RollingMeanLast(Close, n, 200)
            RVOL20 == FDiv(Volume[n], RollingMeanLast(Volume, n, 20))
            Ret5   == PctChangeLast(Close, n, 5)
        IN  [close    |-> Close[n],
             volume   |-> Volume[n],
             rvol20   |-> RVOL20,
             atrpct   |-> ATRpct,
             a20      |-> SMA20,
             a50      |-> SMA50,
             a200     |-> SMA200,
             ret5     |-> Ret5,
             above20  |-> FloatGt(Close[n], SMA20),
             above50  |-> FloatGt(Close[n], SMA50),
             above200 |-> FloatGt(Close[n], SMA200)]

\* Variant: a positive 5-day return required as well.
swing_ok_positive_ret5(m) ==
    /\ m.above20 = 1
    /\ FLt(Q(12, 10), m.rvol20)
    /\ FLe(F(2), m.atrpct)
    /\ FLt(F(0), m.ret5)

(***************************************************************************)
(* pick_top_components                                                     *)
(*                                                                         *)
(* metrics_map is a dict in insertion order: here a sequence of            *)
(* <<ticker, snapshot or None>>.  A row is the tuple                       *)
(* <<t, rvol20, ret5, atrpct, ok>>.                                        *)
(***************************************************************************)
\* ok = (m["above20"] == 1.0) and (m["rvol20"] > 1.2) and (m["atrpct"] >= 2.0)
swing_ok(m) ==
    /\ m.above20 = 1
    /\ FLt(Q(12, 10), m.rvol20)
    /\ FLe(F(2), m.atrpct)

\* The rows appended by the loop over metrics_map.items(), None skipped.
component_rows(metrics_map) ==
    LET have == SelectSeq(metrics_map, LAMBDA e : e[2] # None)
    IN  [i \in DOMAIN have |->
            <<have[i][1], have[i][2].rvol20, have[i][2].ret5, have[i][2].atrpct,
              swing_ok(have[i][2])>>]

\* key=lambda x: (x[3], x[1], x[2])
sort_key(x) == <<x[4], x[2], x[3]>>

\* a < b on tuples of three floats: decided at the first index where the
\* elements are not equal (a NaN equals nothing), and false if there is none.
TupleLt(a, b) ==
    LET diff == {i \in 1..3 : ~FEq(a[i], b[i])}
    IN  /\ diff # {}
        /\ LET i == CHOOSE j \in diff : \A k \in diff : j <= k
           IN  FLt(a[i], b[i])

RowLt(x, y) == TupleLt(sort_key(x), sort_key(y))

Reverse(s) == [i \in 1..Len(s) |-> s[Len(s) + 1 - i]]

(* list.sort of CPython (listobject.c) on fewer than 64 elements: one run  *)
(* found by count_run (reversed if strictly descending), the rest inserted *)
(* by binarysort.  Only "<" on the keys is used.                            *)
RECURSIVE RunEnd(_, _, _)
RunEnd(s, i, descending) ==
    IF i = Len(s) THEN i
    ELSE IF RowLt(s[i + 1], s[i]) = descending THEN RunEnd(s, i + 1, descending)
    ELSE i

RECURSIVE BinSearch(_, _, _, _)
BinSearch(s, pivot, l, r) ==
    IF l >= r THEN l
    ELSE LET p == l + ((r - l) \div 2)
         IN  IF RowLt(pivot, s[p + 1]) THEN BinSearch(s, pivot, l, p)
             ELSE BinSearch(s, pivot, p + 1, r)

RECURSIVE binarysort(_, _)
binarysort(s, start) ==
    IF start > Len(s) THEN s
    ELSE LET pivot == s[start]
             l     == BinSearch(s, pivot, 0, start - 1)
             moved == [i \in 1..Len(s) |->
                          IF i <= l THEN s[i]
                          ELSE IF i = l + 1 THEN pivot
                          ELSE IF i <= start THEN s[i - 1]
                          ELSE s[i]]
         IN  binarysort(moved, start + 1)

list_sort(s) ==
    IF Len(s) < 2 THEN s
    ELSE LET descending == RowLt(s[2], s[1])
             n          == RunEnd(s, 2, descending)
             run        == IF descending
                           THEN Reverse(SubSeq(s, 1, n)) \o SubSeq(s, n + 1, Len(s))
                           ELSE s
         IN  binarysort(run, n + 1)

\* rows.sort(key=..., reverse=True): reverse, sort ascending (stable), reverse.
sort_rows(rows) == Reverse(list_sort(Reverse(rows)))

\* rows[:n]
Take(s, n) == SubSeq(s, 1, IF Len(s) < n THEN Len(s) ELSE n)

\* Variant: the sorted rows truncated to n before the eligible ones are kept.
pick_top_components_truncate_first(metrics_map, n) ==
    LET rows == sort_rows(component_rows(metrics_map))
    IN  <<SelectSeq(Take(rows, n), LAMBDA r : r[5]), Take(rows, n)>>

\* pick_top_components(metrics_map, n) = (good[:n], rows[:n])
pick_top_components(metrics_map, n) ==
    LET rows == sort_rows(component_rows(metrics_map))
        good == SelectSeq(rows, LAMBDA r : r[5])
    IN  <<Take(good, n), Take(rows, n)>>

(***************************************************************************)
(* The known universe.  SECTOR_ETFS and LEADERS are the tables of          *)
(* fetch_data.py cut down to three sectors, in the tables' order: XLK and  *)
(* QQQ with the first four of their leaders (they share three), and XLC,   *)
(* which has no entry in LEADERS.  ZZZ is a symbol that is no sector ETF.  *)
(***************************************************************************)
SECTOR_ETFS == <<"XLK", "XLC", "QQQ">>

SectorName ==
    [e \in Range(SECTOR_ETFS) |->
        CASE e = "XLK" -> "Tech" [] e = "XLC" -> "Comm Services" [] e = "QQQ" -> "Nasdaq"]

LEADERS ==
    [e \in {"XLK", "QQQ"} |->
        IF e = "XLK" THEN <<"MSFT", "AAPL", "META", "GOOGL">>
        ELSE <<"NVDA", "MSFT", "AAPL", "META">>]

\* LEADERS.get(etf, [])
leaders_of(etf) == IF etf \in DOMAIN LEADERS THEN LEADERS[etf] ELSE <<>>

LOOKBACK_DAYS == 220

\* The symbols of the model in Python's string order (what sorted() uses).
SymbolOrder == <<"AAPL", "GOOGL", "META", "MSFT", "NVDA", "QQQ", "XLC", "XLK", "ZZZ">>

\* sorted(set(tickers))
sorted_set(tickers) == SelectSeq(SymbolOrder, LAMBDA t : t \in Range(tickers))

(***************************************************************************)
(* download_daily                                                          *)
(*                                                                         *)
(* A dataset is [id, frame]: id is the identity of the DataFrame object    *)
(* yf.download built (the serial number of the download), frame maps each  *)
(* ticker Yahoo answered for to its history.  yf is what yf.download does  *)
(* if it is called: [kind |-> "ok", df |-> dataset] or [kind |-> "raise"]. *)
(* The outcome is [kind, value, cache, fetched]: what the call returned or *)
(* raised, the cache after it, and whether yf.download returned data.      *)
(***************************************************************************)
\* key = (tuple(tickers), period_days), tickers being sorted(set(tickers))
\* Variant: the key built from the tickers as passed, without sorted(set(...)).
cache_key_as_passed(tickers, period_days) == <<tickers, period_days>>

\* key = (tuple(tickers), period_days), after tickers = sorted(set(tickers))
cache_key(tickers, period_days) == <<sorted_set(tickers), period_days>>

\* Variant: a download that raises is answered with an empty frame, which is
\* stored like any other.
download_daily_swallows(cache, tickers, period_days, yf) ==
    IF sorted_set(tickers) = <<>>
    THEN [kind |-> "raise", value |-> "No tickers to download",
          cache |-> cache, attempted |-> FALSE, fetched |-> FALSE]
    ELSE LET key == cache_key(tickers, period_days)
             df  == IF yf.kind = "raise" THEN [id |-> 0, frame |-> <<>>] ELSE yf.df
         IN  IF key \in DOMAIN cache
             THEN [kind |-> "return", value |-> cache[key],
                   cache |-> cache, attempted |-> FALSE, fetched |-> FALSE]
             ELSE [kind |-> "return", value |-> df,
                   cache |-> (key :> df) @@ cache, attempted |-> TRUE,
                   fetched |-> yf.kind # "raise"]

download_daily(cache, tickers, period_days, yf) ==
    IF sorted_set(tickers) = <<>>
    THEN [kind |-> "raise", value |-> "No tickers to download",
          cache |-> cache, attempted |-> FALSE, fetched |-> FALSE]
    ELSE LET key == cache_key(tickers, period_days)
         IN  IF key \in DOMAIN cache
             THEN [kind |-> "return", value |-> cache[key],
                   cache |-> cache, attempted |-> FALSE, fetched |-> FALSE]
             ELSE IF yf.kind = "raise"
             THEN [kind |-> "raise", value |-> "yf.download failed",
                   cache |-> cache, attempted |-> TRUE, fetched |-> FALSE]
             ELSE [kind |-> "return", value |-> yf.df,
                   cache |-> (key :> yf.df) @@ cache, attempted |-> TRUE,
                   fetched |-> TRUE]

\* The claim's notion of "the same request": the set of symbols and the window.
request_of(tickers, period_days) == <<Range(tickers), period_days>>

\* The number of downloads so far that returned data.
RECURSIVE SumOver(_, _)
SumOver(f, S) == IF S = {} THEN 0
                 ELSE LET x == CHOOSE y \in S : TRUE IN f[x] + SumOver(f, S \ {x})

TotalDownloads == SumOver(downloads, DOMAIN downloads)

\* The history variables after a call of download_daily with outcome out.
Bump(f, k, d) == IF k \in DOMAIN f THEN [f EXCEPT ![k] = @ + d] ELSE (k :> d) @@ f
Note(f, k, x) == IF k \in DOMAIN f THEN [f EXCEPT ![k] = @ \cup {x}] ELSE (k :> {x}) @@ f

Record(tickers, period_days, out) ==
    /\ attempts' = IF out.attempted THEN attempts + 1 ELSE attempts
    /\ downloads' = IF out.fetched
                    THEN Bump(downloads, request_of(tickers, period_days), 1)
                    ELSE downloads
    /\ returned' = IF out.kind = "return"
                   THEN Note(returned, request_of(tickers, period_days),
                             [id |-> out.value.id, tickers |-> tickers])
                   ELSE returned

(***************************************************************************)
(* Market data.  History is the catalogue of histories Yahoo can answer    *)
(* with; a frame maps a ticker to the name of its history, and a ticker    *)
(* missing from the frame has no column (df[t] raises KeyError).           *)
(***************************************************************************)
Bar(o, h, l, c, v) ==
    [Open |-> F(o), High |-> F(h), Low |-> F(l), Close |-> F(c), Volume |-> F(v)]

\* A date on which Yahoo has no values for the ticker.
NullBar == [Open |-> NaN, High |-> NaN, Low |-> NaN, Close |-> NaN, Volume |-> NaN]

FlatBar == Bar(100, 101, 99, 100, 100)

Flat(n) == [i \in 1..n |-> FlatBar]

HistoryNames ==
    {"strong200", "strong50", "flat20", "weak20", "short6", "one", "nulls", "empty",
     "malformed"}

History(name) ==
    CASE name = "strong200" -> Flat(199) \o <<Bar(101, 105, 101, 104, 300)>>
      [] name = "strong50"  -> Flat(49) \o <<Bar(101, 105, 101, 104, 300)>>
      [] name = "flat20"    -> Flat(20)
      [] name = "weak20"    -> Flat(19) \o <<Bar(99, 100, 94, 95, 50)>>
      [] name = "short6"    -> Flat(3) \o <<NullBar>> \o Flat(2)
                                  \o <<Bar(100, 103, 100, 102, 150)>>
      [] name = "one"       -> <<FlatBar>>
      [] name = "nulls"     -> <<NullBar, NullBar>>
      [] name = "empty"     -> <<>>
      [] name = "malformed" -> [i \in 1..20 |->
                                  [Open |-> F(100), Low |-> F(99), Close |-> F(100),
                                   Volume |-> F(100)]]

\* The frames over the tickers T in which every ticker has the history base
\* (or no column at all), but for at most one ticker.
FramesOf(T, names) ==
    LET kinds == names \cup {"absent"}
        mk(f) == [t \in {u \in T : f[u] # "absent"} |-> f[t]]
    IN  {mk([t \in T |-> base]) : base \in kinds}
        \cup {mk([t \in T |-> IF t = dev THEN h ELSE base]) :
                 base \in kinds, dev \in T, h \in kinds}

\* The frames in which every ticker of T has the same history.
UniformFrames(T, names) == {[t \in T |-> h] : h \in names}

\* What yf.download can do when it is called: raise, or build a new DataFrame
\* (whose identity is the serial number of the download) holding one of frames.
YfOutcomes(frames) ==
    {[kind |-> "raise"]}
    \cup {[kind |-> "ok", df |-> [id |-> TotalDownloads + 1, frame |-> f]] : f \in frames}

(***************************************************************************)
(* build_sector_dashboard                                                  *)
(***************************************************************************)
\* An Optional[List[str]] argument is None or List(l).
List(l) == [list |-> l]

\* Variant: a selection without any known ETF falls back to the full universe.
resolve_etfs_fallback(selected_etfs) ==
    LET etfs == IF selected_etfs = None THEN <<>>
                ELSE SelectSeq(selected_etfs.list, LAMBDA e : e \in Range(SECTOR_ETFS))
    IN  IF etfs = <<>> THEN SECTOR_ETFS ELSE etfs

\* Step 1: "if selected_etfs:" is false for None and for the empty list.
resolve_etfs(selected_etfs) ==
    IF (IF selected_etfs = None THEN FALSE ELSE Len(selected_etfs.list) > 0)
    THEN SelectSeq(selected_etfs.list, LAMBDA e : e \in Range(SECTOR_ETFS))
    ELSE SECTOR_ETFS

\* Step 2: every ETF followed by its leaders, then sorted(set(...)).
RECURSIVE collect_tickers(_)
collect_tickers(etfs) ==
    IF etfs = <<>> THEN <<>>
    ELSE <<Head(etfs)>> \o leaders_of(Head(etfs)) \o collect_tickers(Tail(etfs))

tickers_of(etfs) == sorted_set(collect_tickers(etfs))

\* Step 5: metrics[t] for a ticker whose cleaned history is dft: None for an
\* empty one, else the snapshot.
metrics_of_history(dft) ==
    IF dft = <<>> THEN None
    ELSE IF raises_KeyError(dft) THEN None
    ELSE compute_metrics_for_ticker(dft)

\* Steps 4 and 5 for every history of the catalogue, computed once.
MetricsByHistory ==
    [name \in HistoryNames |-> metrics_of_history(dropna(History(name)))]

\* Steps 4 and 5: history[t] = df[t].dropna(), an empty frame if df[t] raises;
\* metrics[t] is None for an empty history.
metrics_of(df, t) ==
    IF t \in DOMAIN df.frame THEN MetricsByHistory[df.frame[t]]
    ELSE metrics_of_history(<<>>)

\* Step 6: the row of one sector ETF.  "Above 20/50/200" is the triple of
\* the three flags and TopCandidates the list the string joins with ", ".
sector_row(df, etf) ==
    LET m_etf          == metrics_of(df, etf)
        leaders        == leaders_of(etf)
        leader_metrics == [i \in DOMAIN leaders |-> metrics_of(df, leaders[i])]
        brd            == sector_breadth(SelectSeq(leader_metrics, LAMBDA m : m # None))
        score          == score_sector(m_etf, brd)
        comp_metrics   == [i \in DOMAIN leaders |-> <<leaders[i], leader_metrics[i]>>]
        best           == pick_top_components(comp_metrics, 3)[1]
    IN  [ETF           |-> etf,
         Sector        |-> SectorName[etf],
         Score         |-> score,
         RVOL          |-> IF m_etf = None THEN None ELSE PyRound(m_etf.rvol20, 2),
         Above         |-> IF m_etf = None THEN None
                           ELSE <<m_etf.above20, m_etf.above50, m_etf.above200>>,
         Breadth20     |-> IF isnan(brd) THEN "-" ELSE PyRound(brd, 2),
         Ret5Pct       |-> IF (IF m_etf = None THEN TRUE ELSE isnan(m_etf.ret5)) THEN None
                           ELSE PyRound(FMul(m_etf.ret5, F(100)), 2),
         ATRpct        |-> IF m_etf = None THEN None ELSE PyRound(m_etf.atrpct, 2),
         TopCandidates |-> [i \in DOMAIN best |-> best[i][1]]]

\* DataFrame.sort_values("Score", ascending=False) sorts with the default
\* kind="quicksort" and na_position="last": the rows with a score come first
\* in descending order and the rows with a NaN score follow in their original
\* order.  numpy's quicksort is not a stable sort, so rows with equal scores
\* can come out in any order: sort_values_desc is the set of the tables the
\* call can return.
sort_values_desc(rows) ==
    LET scored == SelectSeq(rows, LAMBDA r : ~isnan(r.Score))
        nans   == SelectSeq(rows, LAMBDA r : isnan(r.Score))
    IN  {[i \in DOMAIN scored |-> scored[f[i]]] \o nans :
            f \in {g \in Permutations(1..Len(scored)) :
                      \A i \in 1..(Len(scored) - 1) :
                          ~FLt(scored[g[i]].Score, scored[g[i + 1]].Score)}}

NoCall == [kind |-> "none", attempted |-> FALSE, fetched |-> FALSE]

\* build_sector_dashboard(selected_etfs): the set of its possible outcomes,
\* each with the outcome dl of the download_daily call it made (NoCall if it
\* made none).
build_sector_dashboard(cache, selected_etfs, yf) ==
    LET etfs == resolve_etfs(selected_etfs)
    IN  IF etfs = <<>>
        THEN {[kind |-> "raise", value |-> "No valid sector ETFs provided",
               cache |-> cache, dl |-> NoCall]}
        ELSE
        LET tickers_all == tickers_of(etfs)
            dl          == download_daily(cache, tickers_all, LOOKBACK_DAYS, yf)
        IN  IF dl.kind = "raise"
            THEN {[kind |-> "raise", value |-> dl.value, cache |-> dl.cache, dl |-> dl]}
            ELSE {[kind |-> "return", value |-> table_df, cache |-> dl.cache, dl |-> dl] :
                     table_df \in sort_values_desc(
                                     [i \in DOMAIN etfs |-> sector_row(dl.value, etfs[i])])}

(***************************************************************************)
(* Bounds                                                                  *)
(***************************************************************************)
\* Calls of download_daily in one process (Spec).
MaxCalls == 3

\* Threads that call download_daily at the same time (SpecThreads).
MaxThreads == 2

\* Entries of a leader list handed to sector_breadth or pick_top_components
\* (SpecRun).
MaxLeaders == 3

(***************************************************************************)
(* Spec: one process calling download_daily                                *)
(***************************************************************************)
Init ==
    /\ _DOWNLOAD_CACHE = <<>>
    /\ attempts = 0
    /\ downloads = <<>>
    /\ returned = <<>>
    /\ calls = 0
    /\ args = [fn |-> "none"]
    /\ result = Pending
    /\ NoGraph

\* Ticker collections: empty, one symbol, the same symbol twice, two symbols
\* in both orders.
TickerLists ==
    {<<>>, <<"XLK">>, <<"XLK", "XLK">>, <<"XLK", "MSFT">>, <<"MSFT", "XLK">>}

Periods == {LOOKBACK_DAYS, 120}

Call_download_daily ==
    /\ calls < MaxCalls
    /\ \E tickers \in TickerLists, period_days \in Periods :
         \E yf \in YfOutcomes(UniformFrames(Range(tickers), {"flat20"})) :
            \E out \in {download_daily(_DOWNLOAD_CACHE, tickers, period_days, yf)} :
                /\ _DOWNLOAD_CACHE' = out.cache
                /\ Record(tickers, period_days, out)
                /\ calls' = calls + 1
                /\ args' = [fn |-> "download_daily", tickers |-> tickers,
                            period_days |-> period_days]
                /\ result' = [kind |-> out.kind, value |-> out.value]
                /\ UNCHANGED <<state, node, threads>>

Next == Call_download_daily

Spec == Init /\ [][Next]_vars

(***************************************************************************)
(* SpecRun: one call of one function of the engine in a fresh process, its *)
(* arguments drawn from bounded sets                                       *)
(***************************************************************************)
\* A snapshot as compute_metrics_for_ticker shapes it: with fewer than 20
\* rows rvol20, atrpct and a20 are NaN and above20 is 0.
Snap(rvol20, atrpct, ret5, above20, above50, above200) ==
    [close    |-> F(100),
     volume   |-> F(100),
     rvol20   |-> rvol20,
     atrpct   |-> atrpct,
     a20      |-> IF isnan(atrpct) THEN NaN ELSE IF above20 = 1 THEN F(99) ELSE F(101),
     a50      |-> IF above50 = 1 THEN F(99) ELSE NaN,
     a200     |-> IF above200 = 1 THEN F(99) ELSE NaN,
     ret5     |-> ret5,
     above20  |-> above20,
     above50  |-> above50,
     above200 |-> above200]

RvolVals == {Q(1, 2), Q(6, 5), Q(9, 5), F(2), Q(5, 2)}
Ret5Vals == {Q(0 - 8, 100), F(0), Q(2, 100), Q(5, 100), Q(7, 100)}

\* ETF snapshots: 20 rows or more, 6..19 rows, fewer than 6 rows.
EtfSnapshots ==
    {Snap(r, F(2), e, a, b, c) : r \in RvolVals, e \in Ret5Vals, a \in {0, 1},
                                  b \in {0, 1}, c \in {0, 1}}
    \cup {Snap(NaN, NaN, e, 0, 0, 0) : e \in Ret5Vals}
    \cup {Snap(NaN, NaN, NaN, 0, 0, 0)}

\* The values sector_breadth can return for up to MaxLeaders leaders.
BreadthVals == {NaN} \cup UNION {{Q(k, n) : k \in 0..n} : n \in 1..MaxLeaders}

\* Leader snapshots: ties on atrpct and on rvol20, the two thresholds hit
\* exactly, each condition of eligibility failing alone, a short history.
LeaderSnapshots ==
    {Snap(Q(3, 2), F(3), Q(2, 100), 1, 1, 0),
     Snap(Q(13, 10), F(3), Q(5, 100), 1, 1, 0),
     Snap(Q(13, 10), F(3), Q(2, 100), 1, 0, 0),
     Snap(Q(12, 10), F(2), Q(2, 100), 1, 0, 0),
     Snap(Q(5, 2), F(2), Q(0 - 8, 100), 1, 0, 0),
     Snap(Q(5, 2), Q(3, 2), Q(7, 100), 1, 1, 1),
     Snap(Q(5, 2), F(4), Q(7, 100), 0, 0, 0),
     Snap(NaN, NaN, Q(2, 100), 0, 0, 0)}

\* The leaders of XLK, in the order of LEADERS["XLK"] in fetch_data.py.
PickTickers == <<"MSFT", "AAPL", "META", "GOOGL", "CRM", "ADBE", "NOW">>

LeaderLists == SeqsUpTo(LeaderSnapshots \cup {None}, MaxLeaders)

\* Selections: a known ETF, the ETF without leaders, an unknown symbol alone
\* and beside a known ETF, two ETFs out of table order, one ETF twice.
Selections ==
    {<<>>, <<"XLK">>, <<"XLC">>, <<"ZZZ">>, <<"ZZZ", "XLK">>, <<"QQQ", "XLK">>,
     <<"XLK", "XLK">>}

\* Frames of one ticker, each described by the number of its bars without a
\* NaN (around the windows 6, 20, 50 and 200), the number of its rows of NaN
\* and its last bar: above, at or below the level of the bars before it.
BarCounts == {0, 1, 5, 6, 7, 19, 20, 21, 49, 50, 51, 199, 200, 201}

TickerFrames ==
    [bars : BarCounts, nulls : {0, 2}, last : {"up", "flat", "down"}]

\* The frame described by d: the rows of NaN come after the first bar, or
\* alone.
Frame(d) ==
    LET last == CASE d.last = "up"   -> Bar(101, 105, 101, 104, 300)
                  [] d.last = "flat" -> FlatBar
                  [] d.last = "down" -> Bar(99, 100, 94, 95, 50)
        gap  == [i \in 1..d.nulls |-> NullBar]
    IN  IF d.bars = 0 THEN gap
        ELSE IF d.bars = 1 THEN gap \o <<last>>
        ELSE <<FlatBar>> \o gap \o Flat(d.bars - 2) \o <<last>>

RunArgs ==
    {[fn |-> "sector_breadth", leader_metrics |-> l] : l \in LeaderLists}
    \cup {[fn |-> "score_sector", metrics_etf |-> m, breadth |-> b] :
             m \in EtfSnapshots \cup {None}, b \in BreadthVals}
    \cup {[fn |-> "pick_top_components",
           metrics_map |-> [i \in DOMAIN l |-> <<PickTickers[i], l[i]>>], n |-> n] :
             l \in LeaderLists, n \in {2, 3}}
    \cup {[fn |-> "build_sector_dashboard", selected_etfs |-> sel] :
             sel \in {None} \cup {List(l) : l \in Selections}}
    \cup {[fn |-> "compute_metrics_for_ticker", df_t |-> d] : d \in TickerFrames}

InitRun ==
    /\ _DOWNLOAD_CACHE = <<>>
    /\ attempts = 0
    /\ downloads = <<>>
    /\ returned = <<>>
    /\ calls = 0
    /\ args \in RunArgs
    /\ result = Pending
    /\ NoGraph

Return(value) ==
    /\ result' = [kind |-> "return", value |-> value]
    /\ calls' = calls + 1
    /\ UNCHANGED <<_DOWNLOAD_CACHE, attempts, downloads, returned, args, state, node,
                   threads>>

Call_sector_breadth ==
    /\ result = Pending
    /\ args.fn = "sector_breadth"
    /\ Return(sector_breadth(args.leader_metrics))

Call_score_sector ==
    /\ result = Pending
    /\ args.fn = "score_sector"
    /\ Return(score_sector(args.metrics_etf, args.breadth))

Call_pick_top_components ==
    /\ result = Pending
    /\ args.fn = "pick_top_components"
    /\ Return(pick_top_components(args.metrics_map, args.n))

Call_compute_metrics_for_ticker ==
    /\ result = Pending
    /\ args.fn = "compute_metrics_for_ticker"
    /\ Return(compute_metrics_for_ticker(Frame(args.df_t)))

\* The tickers build_sector_dashboard(selected_etfs) asks download_daily for.
build_tickers(selected_etfs) == tickers_of(resolve_etfs(selected_etfs))

Call_build_sector_dashboard ==
    /\ result = Pending
    /\ args.fn = "build_sector_dashboard"
    /\ \E yf \in YfOutcomes(FramesOf(Range(build_tickers(args.selected_etfs)),
                                      HistoryNames)) :
         \E out \in build_sector_dashboard(_DOWNLOAD_CACHE, args.selected_etfs, yf) :
             /\ _DOWNLOAD_CACHE' = out.cache
             /\ Record(build_tickers(args.selected_etfs), LOOKBACK_DAYS, out.dl)
             /\ calls' = calls + 1
             /\ result' = [kind |-> out.kind, value |-> out.value]
             /\ UNCHANGED <<args, state, node, threads>>

NextRun ==
    \/ Call_sector_breadth
    \/ Call_score_sector
    \/ Call_pick_top_components
    \/ Call_compute_metrics_for_ticker
    \/ Call_build_sector_dashboard

SpecRun == InitRun /\ [][NextRun]_vars

(***************************************************************************)
(* SpecGraph: one run of the sector graph                                  *)
(*   entry -> [parse_input] -> fetch_data -> structure_results             *)
(*         -> interpret_results -> END                                     *)
(* An Optional field of SectorState is None or a record that wraps its     *)
(* value: List(l) for sectors, Rows(t) for raw_rows, Str(m) for a string,  *)
(* View(v) for structured_view.                                            *)
(***************************************************************************)
Rows(t) == [rows |-> t]
Str(m) == [str |-> m]
View(v) == [view |-> v]

\* SectorState(source=..., prompt=..., sectors=...)
SectorState(source, prompt, sectors) ==
    [source              |-> source,
     prompt              |-> prompt,
     sectors             |-> sectors,
     raw_rows            |-> None,
     structured_view     |-> None,
     interpreted_results |-> None,
     error               |-> None]

\* str.upper() on the words that occur in prompts and replies.
Upper(w) ==
    CASE w = "xlk"       -> "XLK"
      [] w = "vs"        -> "VS"
      [] w = "strongest" -> "STRONGEST"
      [] OTHER           -> w

\* A prompt is the sequence of its words.
Prompts == {<<"strongest">>, <<"xlk", "vs", "QQQ", "vs", "xlk">>}

\* What the model called by extract_sectors answers: it raises, or its text
\* is unusable or says null (val is no list), or its text holds a list.
ParseReplies ==
    {[kind |-> "raise"], [kind |-> "text", val |-> None]}
    \cup {[kind |-> "text", val |-> List(l)] :
             l \in {<<>>, <<"xlk">>, <<"XLK", "xlk">>, <<"ZZZ">>, <<"QQQ", "XLK">>}}

\* extract_sectors(prompt), given the text of the model's reply.
extract_sectors(prompt, val) ==
    LET upper   == IF val = None THEN <<>>
                   ELSE [i \in DOMAIN val.list |-> Upper(val.list[i])]
        sectors == SelectSeq(upper, LAMBDA t : t \in Range(SECTOR_ETFS))
        words   == {Upper(prompt[i]) : i \in DOMAIN prompt}
    IN  IF sectors # <<>> THEN sectors
        ELSE SelectSeq(SECTOR_ETFS, LAMBDA ticker : ticker \in words)

\* What the model called by structure_results answers: it raises, or its
\* text holds no JSON object, or it holds one.
StructureReplies == {[kind |-> "raise"], [kind |-> "text", json |-> None],
                     [kind |-> "text", json |-> View("json")]}

\* What the model called by interpret_results answers.
InterpretReplies == {[kind |-> "raise"], [kind |-> "text", content |-> "commentary"]}

InitGraph ==
    /\ _DOWNLOAD_CACHE = <<>>
    /\ attempts = 0
    /\ downloads = <<>>
    /\ returned = <<>>
    /\ calls = 0
    /\ args = [fn |-> "none"]
    /\ result = Pending
    /\ threads = <<>>
    /\ node = "entry"
    /\ state \in {SectorState("agent", Str(p), None) : p \in Prompts}
            \cup {SectorState("direct", None, sel) :
                     sel \in {None} \cup {List(l) : l \in Selections}}

Step(next_node, next_state) ==
    /\ node' = next_node
    /\ state' = next_state

NoFetch == UNCHANGED <<_DOWNLOAD_CACHE, attempts, downloads, returned, calls, args,
                       result, threads>>

\* entry, and the conditional edge on state.source.
Node_entry ==
    /\ node = "entry"
    /\ Step(IF state.source = "agent" THEN "parse_input" ELSE "fetch_data", state)
    /\ NoFetch

\* What a node does: it returns a new state, or its exception ends the run.
Returns(st) == [kind |-> "return", state |-> st]
Raises == [kind |-> "raise"]

Run(next_node, out) ==
    IF out.kind = "raise" THEN Step("raised", state) ELSE Step(next_node, out.state)

\* parse_input(state), given the reply of the model.
parse_input(st, reply) ==
    IF reply.kind = "raise" THEN Raises
    ELSE Returns([st EXCEPT !.sectors = List(extract_sectors(st.prompt.str, reply.val))])

Node_parse_input ==
    /\ node = "parse_input"
    /\ \E reply \in ParseReplies : Run("fetch_data", parse_input(state, reply))
    /\ NoFetch

\* The frames of a run of the graph: every ticker with the same history.
GraphFrames(T) == UniformFrames(T, {"strong50", "flat20", "empty"})

\* fetch_data(state), given the outcome of build_sector_dashboard(state.sectors):
\* the rows of the table, or str(e) for any exception.
fetch_data(st, out) ==
    IF out.kind = "return"
    THEN Returns([st EXCEPT !.raw_rows = Rows(out.value), !.error = None])
    ELSE Returns([st EXCEPT !.error = Str(out.value)])

Node_fetch_data ==
    /\ node = "fetch_data"
    /\ \E yf \in YfOutcomes(GraphFrames(Range(build_tickers(state.sectors)))) :
         \E out \in build_sector_dashboard(_DOWNLOAD_CACHE, state.sectors, yf) :
             /\ _DOWNLOAD_CACHE' = out.cache
             /\ Record(build_tickers(state.sectors), LOOKBACK_DAYS, out.dl)
             /\ calls' = calls + 1
             /\ args' = [fn |-> "build_sector_dashboard", selected_etfs |-> state.sectors]
             /\ result' = [kind |-> out.kind, value |-> out.value]
             /\ Run("structure_results", fetch_data(state, out))
    /\ UNCHANGED threads

\* "if not state.raw_rows": raw_rows is None or an empty list.
no_raw_rows(st) == IF st.raw_rows = None THEN TRUE ELSE st.raw_rows.rows = <<>>

\* structure_results(state), given the reply of the model.  The view is the
\* parsed JSON after normalize_small_universe and scrub_basing, which leaves
\* at least the keys basing_or_reverting and notes in it.
structure_results(st, reply) ==
    IF no_raw_rows(st)
    THEN Returns([st EXCEPT !.error = Str("No raw_rows available for sector analysis")])
    ELSE IF reply.kind = "raise" THEN Raises
    ELSE IF reply.json = None
    THEN Returns([st EXCEPT !.error =
                     Str("Failed to parse structured sector analysis JSON")])
    ELSE Returns([st EXCEPT !.structured_view = reply.json, !.error = None])

Node_structure_results ==
    /\ node = "structure_results"
    /\ \E reply \in StructureReplies :
          Run("interpret_results", structure_results(state, reply))
    /\ NoFetch

\* interpret_results(state), given the reply of the model.
interpret_results(st, reply) ==
    IF no_raw_rows(st)
    THEN Returns([st EXCEPT !.error = Str("No raw_rows available for commentary")])
    ELSE IF st.structured_view = None
    THEN Returns([st EXCEPT !.error = Str("No structured_view available for commentary")])
    ELSE IF reply.kind = "raise" THEN Raises
    ELSE Returns([st EXCEPT !.interpreted_results = Str(reply.content), !.error = None])

Node_interpret_results ==
    /\ node = "interpret_results"
    /\ \E reply \in InterpretReplies : Run("END", interpret_results(state, reply))
    /\ NoFetch

NextGraph ==
    \/ Node_entry
    \/ Node_parse_input
    \/ Node_fetch_data
    \/ Node_structure_results
    \/ Node_interpret_results

SpecGraph == InitGraph /\ [][NextGraph]_vars

(***************************************************************************)
(* SpecThreads: threads of one process, each calling download_daily once.  *)
(* download_daily takes no lock.  A thread runs from the call to the point *)
(* where it either returns (or raises) or calls yf.download, which blocks  *)
(* on the network while other threads run; when yf.download is back the    *)
(* thread stores the frame and returns.  A run of fetch_data on an event   *)
(* loop does both steps without an await between them, which is one of the *)
(* interleavings of two threads.                                           *)
(***************************************************************************)
Threads == 1..MaxThreads

InitThreads ==
    /\ _DOWNLOAD_CACHE = <<>>
    /\ attempts = 0
    /\ downloads = <<>>
    /\ returned = <<>>
    /\ calls = 0
    /\ args = [fn |-> "none"]
    /\ result = Pending
    /\ state = [none |-> TRUE]
    /\ node = "none"
    /\ threads = [t \in Threads |-> [pc |-> "idle"]]

\* Lines 52-62: up to the return of a hit, the raise for no tickers, or the
\* call of yf.download.
Thread_call(t) ==
    /\ threads[t].pc = "idle"
    /\ \E tickers \in TickerLists, period_days \in Periods :
          LET key == cache_key(tickers, period_days)
          IN  /\ threads' =
                    [threads EXCEPT ![t] =
                        IF sorted_set(tickers) = <<>>
                        THEN [pc |-> "raised", tickers |-> tickers,
                              period_days |-> period_days]
                        ELSE IF key \in DOMAIN _DOWNLOAD_CACHE
                        THEN [pc |-> "returned", tickers |-> tickers,
                              period_days |-> period_days, df |-> _DOWNLOAD_CACHE[key]]
                        ELSE [pc |-> "yf.download", tickers |-> tickers,
                              period_days |-> period_days]]
              /\ attempts' = IF sorted_set(tickers) # <<>> /\ key \notin DOMAIN _DOWNLOAD_CACHE
                             THEN attempts + 1 ELSE attempts
              /\ returned' = IF sorted_set(tickers) # <<>> /\ key \in DOMAIN _DOWNLOAD_CACHE
                             THEN Note(returned, request_of(tickers, period_days),
                                       [id |-> _DOWNLOAD_CACHE[key].id, tickers |-> tickers])
                             ELSE returned
    /\ calls' = calls + 1
    /\ UNCHANGED <<_DOWNLOAD_CACHE, downloads, args, result, state, node>>

\* Lines 62-71: yf.download is back; the frame is stored and returned.
Thread_downloaded(t) ==
    /\ threads[t].pc = "yf.download"
    /\ \E yf \in YfOutcomes(UniformFrames(Range(threads[t].tickers), {"flat20"})) :
          LET tickers     == threads[t].tickers
              period_days == threads[t].period_days
              key         == cache_key(tickers, period_days)
          IN  IF yf.kind = "raise"
              THEN /\ threads' = [threads EXCEPT ![t].pc = "raised"]
                   /\ UNCHANGED <<_DOWNLOAD_CACHE, downloads, returned>>
              ELSE /\ threads' = [threads EXCEPT ![t] =
                                     [pc |-> "returned", tickers |-> tickers,
                                      period_days |-> period_days, df |-> yf.df]]
                   /\ _DOWNLOAD_CACHE' =
                         (key :> yf.df) @@ [k \in DOMAIN _DOWNLOAD_CACHE \ {key} |->
                                               _DOWNLOAD_CACHE[k]]
                   /\ downloads' = Bump(downloads, request_of(tickers, period_days), 1)
                   /\ returned' = Note(returned, request_of(tickers, period_days),
                                       [id |-> yf.df.id, tickers |-> tickers])
    /\ UNCHANGED <<attempts, calls, args, result, state, node>>

NextThreads == \E t \in Threads : Thread_call(t) \/ Thread_downloaded(t)

SpecThreads == InitThreads /\ [][NextThreads]_vars

(***************************************************************************)
(* SpecProcess: one process in which dashboards are computed repeatedly    *)
(* through its three entry points: build_sector_dashboard of the pipeline, *)
(* compute_sector_dashboard behind GET /api/sectors, and main of the       *)
(* command line.                                                           *)
(***************************************************************************)
\* sector_analysis.LOOKBACK_DAYS
sa_LOOKBACK_DAYS == 180

\* sector_analysis.download_daily: yf.download on every call, nothing kept.
sa_download_daily(tickers, period_days, yf) ==
    IF yf.kind = "raise"
    THEN [kind |-> "raise", value |-> "yf.download failed",
          attempted |-> TRUE, fetched |-> FALSE]
    ELSE [kind |-> "return", value |-> yf.df, attempted |-> TRUE, fetched |-> TRUE]

\* tickers_all of compute_sector_dashboard and of main: every sector ETF and
\* every leader, sorted(set(...)).
sa_tickers_all == tickers_of(SECTOR_ETFS)

\* The table of compute_sector_dashboard and of main, which hold per sector
\* the values of sector_row under their own column names; the model keeps
\* the ETF and its score.  The set of the tables the sort can return.
sa_table(df) ==
    {[i \in DOMAIN t |-> [ETF |-> t[i].ETF, Score |-> t[i].Score]] :
        t \in sort_values_desc([i \in DOMAIN SECTOR_ETFS |-> sector_row(df, SECTOR_ETFS[i])])}

\* compute_sector_dashboard(lookback_days) of app.py: its possible outcomes.
compute_sector_dashboard(lookback_days, yf) ==
    LET dl == sa_download_daily(sa_tickers_all, lookback_days, yf)
    IN  IF dl.kind = "raise"
        THEN {[kind |-> "raise", value |-> dl.value, dl |-> dl]}
        ELSE {[kind |-> "return", value |-> table_df, dl |-> dl] :
                 table_df \in sa_table(dl.value)}

\* main() of sector_analysis.py, up to the table it prints.
main(yf) == compute_sector_dashboard(sa_LOOKBACK_DAYS, yf)

\* lookback_days of GET /api/sectors: the default and the window of the
\* pipeline.
LookbackDays == {sa_LOOKBACK_DAYS, LOOKBACK_DAYS}

ProcessFrames(T) == UniformFrames(T, {"strong50", "flat20", "empty"})

\* The pipeline computes a dashboard of the whole universe.
Run_build_sector_dashboard ==
    /\ calls < MaxCalls
    /\ \E yf \in YfOutcomes(ProcessFrames(Range(build_tickers(None)))) :
         \E out \in build_sector_dashboard(_DOWNLOAD_CACHE, None, yf) :
             /\ _DOWNLOAD_CACHE' = out.cache
             /\ Record(build_tickers(None), LOOKBACK_DAYS, out.dl)
             /\ calls' = calls + 1
             /\ args' = [fn |-> "build_sector_dashboard", selected_etfs |-> None]
             /\ result' = [kind |-> out.kind, value |-> out.value]
             /\ UNCHANGED <<state, node, threads>>

\* GET /api/sectors?lookback_days=...
Run_compute_sector_dashboard ==
    /\ calls < MaxCalls
    /\ \E lookback_days \in LookbackDays :
         \E yf \in YfOutcomes(ProcessFrames(Range(sa_tickers_all))) :
            \E out \in compute_sector_dashboard(lookback_days, yf) :
                /\ Record(sa_tickers_all, lookback_days, out.dl)
                /\ calls' = calls + 1
                /\ args' = [fn |-> "compute_sector_dashboard",
                            lookback_days |-> lookback_days]
                /\ result' = [kind |-> out.kind, value |-> out.value]
                /\ UNCHANGED <<_DOWNLOAD_CACHE, state, node, threads>>

\* python sector_analysis.py
Run_main ==
    /\ calls < MaxCalls
    /\ \E yf \in YfOutcomes(ProcessFrames(Range(sa_tickers_all))) :
         \E out \in main(yf) :
             /\ Record(sa_tickers_all, sa_LOOKBACK_DAYS, out.dl)
             /\ calls' = calls + 1
             /\ args' = [fn |-> "main"]
             /\ result' = [kind |-> out.kind, value |-> out.value]
             /\ UNCHANGED <<_DOWNLOAD_CACHE, state, node, threads>>

NextProcess ==
    \/ Run_build_sector_dashboard
    \/ Run_compute_sector_dashboard
    \/ Run_main

SpecProcess == Init /\ [][NextProcess]_vars

(***************************************************************************)
(* Properties of the memoized download_daily (Spec)                        *)
(***************************************************************************)
Returned == result # Pending /\ result.kind = "return"

\* C1: After any sequence of calls of download_daily, all the calls that
\* asked for the same set of symbols (in any order, with or without
\* duplicates) and the same period_days returned the one dataset stored in
\* the cache for that request, and that request caused exactly one download;
\* requests that differ in the symbol set or in period_days got datasets of
\* different downloads.
C1_SameRequestOneDownload ==
    /\ DOMAIN downloads = DOMAIN returned
    /\ \A k \in DOMAIN returned :
          /\ downloads[k] = 1
          /\ \E key \in DOMAIN _DOWNLOAD_CACHE :
                /\ Range(key[1]) = k[1]
                /\ key[2] = k[2]
                /\ \A r \in returned[k] : r.id = _DOWNLOAD_CACHE[key].id
    /\ \A k1, k2 \in DOMAIN returned :
          k1 # k2 => {r.id : r \in returned[k1]} \cap {r.id : r \in returned[k2]} = {}
    /\ (Returned /\ args.fn = "download_daily") =>
          \E key \in DOMAIN _DOWNLOAD_CACHE :
              /\ Range(key[1]) = Range(args.tickers)
              /\ key[2] = args.period_days
              /\ result.value = _DOWNLOAD_CACHE[key]

\* Three calls: XLK and MSFT asked for in both orders with one download
\* between them, and a different request with a download of its own.
C1_Witness ==
    /\ calls = 3
    /\ \E k \in DOMAIN returned :
          /\ {<<"XLK", "MSFT">>, <<"MSFT", "XLK">>} \subseteq {r.tickers : r \in returned[k]}
          /\ downloads[k] = 1
          /\ \E k2 \in DOMAIN returned : k2 # k /\ downloads[k2] = 1

(***************************************************************************)
(* Properties of score_sector (SpecRun)                                    *)
(***************************************************************************)
ScoreCall == args.fn = "score_sector" /\ Returned

\* C2: score_sector returns NaN exactly when the ETF's snapshot is None; for
\* every snapshot that exists, one of a short history included, and every
\* breadth, NaN included, the score is a number.
C2_NaNExactlyWithoutSnapshot ==
    ScoreCall => (isnan(result.value) <=> args.metrics_etf = None)

\* 40*min(rvol20, 2.0)/2.0 + 20*(above20 + above50 + above200)/3
\*   + 25*(breadth, NaN as 0) + 15*clamp((max(ret5, 0) + 0.05)/0.10, 0, 1)
\* as an exact fraction, for a snapshot m whose rvol20 and ret5 are numbers.
WeightedSum(m, b) ==
    LET r     == m.rvol20
        e     == m.ret5
        vol   == IF r[1] >= 2 * r[2] THEN F(1) ELSE Q(r[1], 2 * r[2])
        trend == Q(m.above20 + m.above50 + m.above200, 3)
        br    == IF b[2] = 0 THEN F(0) ELSE b
        up    == IF e[1] <= 0 THEN Q(1, 2) ELSE Q(20 * e[1] + e[2], 2 * e[2])
        mom   == IF up[1] >= up[2] THEN F(1) ELSE up
    IN  Q(40 * vol[1] * 3 * br[2] * mom[2]
            + 20 * trend[1] * vol[2] * (3 \div trend[2]) * br[2] * mom[2]
            + 25 * br[1] * vol[2] * 3 * mom[2]
            + 15 * mom[1] * vol[2] * 3 * br[2],
          vol[2] * 3 * br[2] * mom[2])

\* x is y rounded to one decimal: a whole number of tenths, at most 0.05 away.
RoundedToTenth(x, y) ==
    /\ x[2] # 0
    /\ (10 * x[1]) % x[2] = 0
    /\ 20 * Abs(x[1] * y[2] - y[1] * x[2]) <= x[2] * y[2]

\* C3: For an ETF snapshot with defined rvol20 and ret5 and a breadth in
\* [0,1] or NaN, score_sector is the weighted sum of the four sub-scores
\* rounded to one decimal; rvol20 = 1.8, the three flags true, ret5 = 0.02
\* and breadth = 1.0 give 91.5.
C3_ScoreIsWeightedSum ==
    (/\ ScoreCall
     /\ args.metrics_etf # None
     /\ ~isnan(args.metrics_etf.rvol20)
     /\ ~isnan(args.metrics_etf.ret5))
    => /\ RoundedToTenth(result.value, WeightedSum(args.metrics_etf, args.breadth))
       /\ (/\ args.metrics_etf.rvol20 = Q(18, 10)
           /\ args.metrics_etf.above20 + args.metrics_etf.above50
                + args.metrics_etf.above200 = 3
           /\ args.metrics_etf.ret5 = Q(2, 100)
           /\ args.breadth = F(1))
          => result.value = Q(915, 10)

\* The call of the example has returned 91.5.
C3_Witness ==
    /\ ScoreCall
    /\ args.metrics_etf # None
    /\ args.metrics_etf.rvol20 = Q(18, 10)
    /\ args.metrics_etf.above20 + args.metrics_etf.above50 + args.metrics_etf.above200 = 3
    /\ args.metrics_etf.ret5 = Q(2, 100)
    /\ args.breadth = F(1)
    /\ result.value = Q(915, 10)

Min(a, b) == IF a < b THEN a ELSE b

BuildCall == args.fn = "build_sector_dashboard" /\ Returned

\* C4: Every defined score lies in the closed range [0, 100]: in every row
\* of the table a dashboard build returns, and in every return of
\* score_sector itself.
C4_ScoreInRange ==
    /\ BuildCall =>
          \A i \in DOMAIN result.value :
              LET s == result.value[i].Score
              IN  ~isnan(s) => (0 <= s[1] /\ s[1] <= 100 * s[2])
    /\ ScoreCall =>
          (~isnan(result.value) =>
              (0 <= result.value[1] /\ result.value[1] <= 100 * result.value[2]))

\* A build whose table has a row with relative volume above the cap of 2.0,
\* all flags and all leaders above SMA20: score 98.5.
C4_Witness ==
    /\ BuildCall
    /\ \E i \in DOMAIN result.value :
          /\ result.value[i].Score = Q(985, 10)
          /\ result.value[i].RVOL = Q(273, 100)

(***************************************************************************)
(* Properties of sector_breadth (SpecRun)                                  *)
(***************************************************************************)
BreadthCall == args.fn = "sector_breadth" /\ Returned

\* C5: sector_breadth is the exact mean of above20 over the leaders that
\* have a snapshot, leaders without one left out of the denominator; it is
\* NaN exactly when no leader has a snapshot, as for an ETF without leaders,
\* whose row shows "-".
C5_BreadthIsMeanOverSnapshots ==
    /\ BreadthCall =>
          LET lm   == args.leader_metrics
              have == {i \in DOMAIN lm : lm[i] # None}
              up   == {i \in have : lm[i].above20 = 1}
              b    == result.value
          IN  /\ isnan(b) <=> have = {}
              /\ have # {} => b[1] * Cardinality(have) = Cardinality(up) * b[2]
    /\ BuildCall =>
          \A i \in DOMAIN result.value :
              leaders_of(result.value[i].ETF) = <<>> => result.value[i].Breadth20 = "-"

\* Three leaders, one without a snapshot, one of the other two above its
\* SMA20: breadth 1/2.
C5_Witness ==
    /\ BreadthCall
    /\ Len(args.leader_metrics) = 3
    /\ \E i \in DOMAIN args.leader_metrics : args.leader_metrics[i] = None
    /\ result.value = Q(1, 2)

(***************************************************************************)
(* Properties of pick_top_components (SpecRun)                             *)
(***************************************************************************)
PickCall == args.fn = "pick_top_components" /\ Returned

\* above20 AND rvol20 > 1.2 AND atrPct >= 2.0, false where a value is NaN.
Eligible(m) ==
    /\ m.above20 = 1
    /\ m.rvol20[2] # 0
    /\ 5 * m.rvol20[1] > 6 * m.rvol20[2]
    /\ m.atrpct[2] # 0
    /\ m.atrpct[1] >= 2 * m.atrpct[2]

KeyDefined(a) == a[4][2] # 0 /\ a[2][2] # 0 /\ a[3][2] # 0

NumLt(x, y) == x[1] * y[2] < y[1] * x[2]

\* Row a's key is lexicographically greater than row b's; both are defined.
KeyGreater(a, b) ==
    \/ NumLt(b[4], a[4])
    \/ a[4] = b[4] /\ NumLt(b[2], a[2])
    \/ a[4] = b[4] /\ a[2] = b[2] /\ NumLt(b[3], a[3])

\* C7: pick_top_components orders the rows descending by the key (atrPct,
\* rvol20, ret5): no row is followed by a row with a greater key (stated
\* here only for pairs of rows whose keys are numbers).
C7_DescendingByKey ==
    PickCall =>
        \A i, j \in DOMAIN result.value[2] :
            (/\ i < j
             /\ KeyDefined(result.value[2][i])
             /\ KeyDefined(result.value[2][j]))
            => ~KeyGreater(result.value[2][j], result.value[2][i])

\* C8: pick_top_components(metrics, n) returns (eligible, topByRank):
\* topByRank is the first n rows of the full sorted list and eligible the
\* first n rows of its eligible-only subsequence (filtered, then truncated);
\* both have at most n rows and every row of eligible is flagged.  So the
\* TopCandidates of every row of a build are at most 3 tickers, all of them
\* leaders of the row's sector.
C8_FilterThenTruncate ==
    /\ PickCall =>
          LET full     == sort_rows(component_rows(args.metrics_map))
              eligible == result.value[1]
              top      == result.value[2]
          IN  /\ Len(top) <= args.n
              /\ Len(eligible) <= args.n
              /\ top = Take(full, args.n)
              /\ eligible = Take(SelectSeq(full, LAMBDA r : r[5]), args.n)
              /\ \A i \in DOMAIN eligible : eligible[i][5]
    /\ BuildCall =>
          \A i \in DOMAIN result.value :
              /\ Len(result.value[i].TopCandidates) <= 3
              /\ Range(result.value[i].TopCandidates)
                    \subseteq Range(leaders_of(result.value[i].ETF))

\* n = 2 and three rows, the first of them not eligible, the other two
\* eligible: the second eligible row is not among the first two rows.
C8_Witness ==
    /\ PickCall
    /\ args.n = 2
    /\ Len(result.value[1]) = 2
    /\ ~result.value[2][1][5]
    /\ result.value[1][2] \notin Range(result.value[2])

(***************************************************************************)
(* Properties of build_sector_dashboard (SpecRun)                          *)
(***************************************************************************)
BuildDone == args.fn = "build_sector_dashboard" /\ result # Pending

\* The sectors a selection resolves to, as a set.
Universe(selected_etfs) ==
    LET asked == IF selected_etfs = None THEN {} ELSE Range(selected_etfs.list)
    IN  IF asked = {} THEN Range(SECTOR_ETFS) ELSE asked \cap Range(SECTOR_ETFS)

\* C9: A non-empty selection resolves to its known ETFs, unknown symbols
\* dropped; an empty or omitted selection resolves to the full universe; the
\* table of a build has rows for exactly the resolved sectors.  A selection
\* that resolves to no sector makes the build raise before anything is
\* fetched; no other build raises unless the download does.
C9_UniverseResolution ==
    BuildDone =>
        LET universe == Universe(args.selected_etfs)
        IN  /\ universe = {} =>
                  /\ result = [kind |-> "raise", value |-> "No valid sector ETFs provided"]
                  /\ attempts = 0
                  /\ _DOWNLOAD_CACHE = <<>>
            /\ (universe # {} /\ result.kind = "return") =>
                  /\ {result.value[i].ETF : i \in DOMAIN result.value} = universe
                  /\ attempts = 1
            /\ (universe # {} /\ result.kind = "raise") =>
                  /\ result.value = "yf.download failed"
                  /\ attempts = 1

\* The build for the selection [ZZZ] has raised and nothing was fetched.
C9_Witness ==
    /\ BuildDone
    /\ args.selected_etfs = List(<<"ZZZ">>)
    /\ result.kind = "raise"
    /\ attempts = 0

\* The fetch of the build answered, and with nothing for any of the symbols
\* asked for: each has no column in the frame or an empty bar sequence.
FetchedNothing ==
    /\ attempts = 1
    /\ \E key \in DOMAIN _DOWNLOAD_CACHE :
          \A t \in Range(key[1]) :
              \/ t \notin DOMAIN _DOWNLOAD_CACHE[key].frame
              \/ History(_DOWNLOAD_CACHE[key].frame[t]) = <<>>

\* C10: If the fetch returns nothing for the entire symbol set the run fails
\* with a no-data error and returns no dashboard.
C10_NoDataIsFatal ==
    (BuildDone /\ FetchedNothing) => result.kind = "raise"

(***************************************************************************)
(* Failures of single symbols in a build (SpecRun)                         *)
(***************************************************************************)
\* The frame of the dataset the build fetched (the one entry of the cache).
BuiltFrame == _DOWNLOAD_CACHE[CHOOSE key \in DOMAIN _DOWNLOAD_CACHE : TRUE].frame

\* The histories that fail: no bar, no bar without a NaN, or bars without
\* one of the columns the indicators are computed from.
FailingHistories ==
    {name \in HistoryNames :
        \/ \A i \in DOMAIN History(name) :
              \E col \in DOMAIN History(name)[i] : History(name)[i][col][2] = 0
        \/ \E i \in DOMAIN History(name) : "High" \notin DOMAIN History(name)[i]}

\* Symbol t failed: it has no column in the frame, or a failing history.
Failed(frame, t) == t \notin DOMAIN frame \/ frame[t] \in FailingHistories

\* C11: Whatever symbols fail (no bars, no valid bar after cleaning, an
\* exception in the indicators), a build whose fetch answered returns a row
\* for every resolved ETF; a failed symbol is in no row's TopCandidates; and
\* every row is the row computed from the symbols of its own sector that did
\* not fail, as if the others were not in the frame at all.
C11_FailureIsLocal ==
    (BuildDone /\ _DOWNLOAD_CACHE # <<>>) =>
        /\ result.kind = "return"
        /\ {result.value[i].ETF : i \in DOMAIN result.value} = Universe(args.selected_etfs)
        /\ \A i \in DOMAIN result.value :
              LET row  == result.value[i]
                  own  == {row.ETF} \cup Range(leaders_of(row.ETF))
                  good == {t \in own : ~Failed(BuiltFrame, t)}
              IN  /\ \A t \in Range(row.TopCandidates) : ~Failed(BuiltFrame, t)
                  /\ row = sector_row([id |-> 0, frame |-> [t \in good |-> BuiltFrame[t]]],
                                      row.ETF)

\* MSFT alone failed on an exception in its indicators; the row of XLK has a
\* score, the breadth of the three remaining leaders and these as candidates.
C11_Witness ==
    /\ BuildCall
    /\ "MSFT" \in DOMAIN BuiltFrame
    /\ BuiltFrame["MSFT"] = "malformed"
    /\ \A t \in DOMAIN BuiltFrame : t # "MSFT" => BuiltFrame[t] = "strong50"
    /\ \E i \in DOMAIN result.value :
          /\ result.value[i].ETF = "XLK"
          /\ ~isnan(result.value[i].Score)
          /\ result.value[i].Breadth20 = F(1)
          /\ Range(result.value[i].TopCandidates) = {"AAPL", "META", "GOOGL"}

(***************************************************************************)
(* Properties of the sector graph (SpecGraph)                              *)
(***************************************************************************)
\* yf.download was called in this run and did not return data: it raised.
FetchRaised == attempts = 1 /\ downloads = <<>>

\* C12: If the fetch raises, build_sector_dashboard returns no table,
\* fetch_data records an error and leaves raw_rows unset, nothing is stored
\* in the download cache, and up to the end of the run no step sets
\* structured_view or interpreted_results.
C12_FetchFailureIsFatal ==
    FetchRaised =>
        /\ result.kind = "raise"
        /\ _DOWNLOAD_CACHE = <<>>
        /\ state.raw_rows = None
        /\ state.error # None
        /\ state.structured_view = None
        /\ state.interpreted_results = None

\* A run whose fetch raised has reached END.
C12_Witness ==
    /\ FetchRaised
    /\ node = "END"
    /\ state.error # None
    /\ state.raw_rows = None

(***************************************************************************)
(* The order of the rows of a build (SpecRun)                              *)
(***************************************************************************)
\* The place of an ETF in the iteration over the resolved universe.
UniversePlace(etf) ==
    LET etfs == resolve_etfs(args.selected_etfs)
    IN  CHOOSE i \in DOMAIN etfs : etfs[i] = etf /\ \A j \in 1..(i - 1) : etfs[j] # etf

\* C13: The rows a build returns are in descending order of score, every row
\* with a NaN score after every row with a score, and rows with equal scores
\* in the order of the iteration over the universe.
C13_SortedAndStable ==
    BuildCall =>
        \A i, j \in DOMAIN result.value :
            i < j =>
                LET a == result.value[i]
                    b == result.value[j]
                IN  /\ isnan(a.Score) => isnan(b.Score)
                    /\ (~isnan(a.Score) /\ ~isnan(b.Score)) =>
                          ~NumLt(a.Score, b.Score)
                    /\ a.Score = b.Score =>
                          UniversePlace(a.ETF) <= UniversePlace(b.ETF)

(***************************************************************************)
(* Properties of compute_metrics_for_ticker (SpecRun)                      *)
(***************************************************************************)
MetricsCall == args.fn = "compute_metrics_for_ticker" /\ Returned

\* The bars of the frame passed that have no NaN, in order.
CleanedBars ==
    SelectSeq(Frame(args.df_t),
              LAMBDA b : b.Open[2] # 0 /\ b.High[2] # 0 /\ b.Low[2] # 0
                         /\ b.Close[2] # 0 /\ b.Volume[2] # 0)

\* C14: In the snapshot of compute_metrics_for_ticker, rvol20 and atrPct are
\* undefined with fewer than 20 cleaned bars and defined with 20 or more, and
\* ret5 is undefined with fewer than 6 cleaned bars and defined with 6 or
\* more, however many rows the frame had before cleaning.
C14_WindowedDefinedness ==
    MetricsCall =>
        LET n == Len(CleanedBars)
            m == result.value
        IN  /\ m = None <=> n = 0
            /\ n > 0 =>
                  /\ isnan(m.rvol20) <=> n < 20
                  /\ isnan(m.atrpct) <=> n < 20
                  /\ isnan(m.ret5) <=> n < 6

\* A frame of 21 rows of which 19 are without NaN: rvol20 and atrPct are
\* undefined, ret5 is defined.
C14_Witness ==
    /\ MetricsCall
    /\ Len(Frame(args.df_t)) = 21
    /\ Len(CleanedBars) = 19
    /\ isnan(result.value.rvol20)
    /\ isnan(result.value.atrpct)
    /\ ~isnan(result.value.ret5)

\* The latest close is strictly greater than the mean of the last w closes
\* of the cleaned bars, of which there are at least w.
AboveAverage(w) ==
    LET n     == Len(CleanedBars)
        Close == [i \in 1..n |-> CleanedBars[i].Close]
    IN  /\ n >= w
        /\ NumLt(FSum(Close, n - w + 1, n), FMul(F(w), Close[n]))

\* C15: In every snapshot each of above20, above50 and above200 is 0 or 1:
\* 1 exactly when the latest close is strictly greater than the moving
\* average of that window, and 0 when the history is too short for the
\* moving average to be defined.
C15_AboveFlags ==
    (MetricsCall /\ result.value # None) =>
        /\ result.value.above20 = (IF AboveAverage(20) THEN 1 ELSE 0)
        /\ result.value.above50 = (IF AboveAverage(50) THEN 1 ELSE 0)
        /\ result.value.above200 = (IF AboveAverage(200) THEN 1 ELSE 0)

\* 50 cleaned bars, the last one above the averages: above20 and above50 are
\* 1 and above200, whose average is undefined, is 0.
C15_Witness ==
    /\ MetricsCall
    /\ Len(CleanedBars) = 50
    /\ result.value.above20 = 1
    /\ result.value.above50 = 1
    /\ isnan(result.value.a200)
    /\ result.value.above200 = 0

(***************************************************************************)
(* download_daily under concurrent callers (SpecThreads)                   *)
(***************************************************************************)
\* The key of the call thread t is in.
KeyOf(t) == cache_key(threads[t].tickers, threads[t].period_days)

\* C16: The check for the key, the fetch and the store of download_daily
\* are one atomic unit per key: no two fetches for the same key are ever in
\* flight at the same time, and the callers of one key cause at most one
\* download.
C16_OneFetchInFlightPerKey ==
    /\ \A t1, t2 \in DOMAIN threads :
          (/\ t1 # t2
           /\ threads[t1].pc = "yf.download"
           /\ threads[t2].pc = "yf.download")
          => KeyOf(t1) # KeyOf(t2)
    /\ \A k \in DOMAIN downloads : downloads[k] <= 1

(***************************************************************************)
(* The entry points of a dashboard computation (SpecProcess)               *)
(***************************************************************************)
\* C17: Every entry point of a dashboard computation gets its bars through
\* the memoizing fetch: however often computations with the same set of
\* symbols and the same window are repeated in one process, through whichever
\* entry points, the market data source delivers that request at most once.
C17_EveryEntryPointMemoized ==
    \A k \in DOMAIN downloads : downloads[k] <= 1

(***************************************************************************)
(* The rows of a dashboard                                                 *)
(***************************************************************************)
\* C18: The table a build returns has exactly one row per resolved sector
\* ETF, whatever the selection, one that names a known ETF twice included:
\* no ETF is in two rows, and every resolved ETF has its row.
C18_OneRowPerEtf ==
    BuildCall =>
        LET table_df == result.value
        IN  /\ \A i, j \in DOMAIN table_df :
                  table_df[i].ETF = table_df[j].ETF => i = j
            /\ {table_df[i].ETF : i \in DOMAIN table_df} = Universe(args.selected_etfs)

(***************************************************************************)
(* The error of a run of the graph (SpecGraph)                             *)
(***************************************************************************)
\* C19: Once a step of the pipeline has recorded an error in the state, the
\* error field keeps the message of that first failing step to the end of the
\* run: no later step clears it or puts its own message in its place.
C19_FirstErrorPreserved ==
    [][state.error # None => state'.error = state.error]_vars

====
